---- MODULE Spec2Model ----
(***************************************************************************)
(* A model of the light / shadow-map data model (src/light.rs), of the     *)
(* glTF mesh/material extraction (src/io/gltf.rs) and of the window's      *)
(* render loop (src/window/glutin_window.rs) of three-d.                   *)
(*                                                                         *)
(* Numbers.  An f32 scalar is an integer number of tenths (9 is 0.9).  A   *)
(* Vec3 is kept exactly as  s * p : p a primitive integer triple (the      *)
(* direction) and s > 0 a scale given by its square n/d in lowest terms.   *)
(* The zero vector has p = <<0,0,0>>, d = 1; a vector with NaN components  *)
(* has d = 0.  Rounding of f32 arithmetic is not modelled.                 *)
(***************************************************************************)
EXTENDS Integers, Sequences, FiniteSets, TLC

VARIABLES
    light,    \* the light object under consideration (one struct of light.rs)
    gl,       \* the depth state of the graphics context
    op,       \* the last public operation that returned: its name and arguments
    events,   \* graphics calls and callback invocations made by that operation
    doc,      \* the glTF document handed to Loaded::gltf
    loaded,   \* the result of Loaded::gltf, <<>> before the call
    up_in,    \* the argument of compute_up_direction
    up_out,   \* its result, <<>> before the call
    window    \* the state captured by the closure of Window::render_loop

vars == <<light, gl, op, events, doc, loaded, up_in, up_out, window>>

lightVars == <<light, gl, op, events>>
gltfVars == <<doc, loaded>>
upVars == <<up_in, up_out>>

-----------------------------------------------------------------------------
(* Bounds of the model.                                                    *)

\* texture resolutions asked of generate_shadow_map are 1..MaxTextureSize
MaxTextureSize == 2
\* a glTF document has 1..MaxNodes nodes
MaxNodes == 3

-----------------------------------------------------------------------------
(* Option<T>.                                                              *)

None == <<>>
Some(x) == <<x>>
is_some(o) == o # <<>>
unwrap(o) == o[1]

-----------------------------------------------------------------------------
(* Exact vector arithmetic (cgmath Vector3<f32>, without rounding).        *)

Abs(x) == IF x < 0 THEN -x ELSE x

RECURSIVE GCD(_, _)
GCD(a, b) == IF b = 0 THEN a ELSE GCD(b, a % b)

Gcd3(t) == GCD(GCD(Abs(t[1]), Abs(t[2])), Abs(t[3]))

Norm2(t) == t[1] * t[1] + t[2] * t[2] + t[3] * t[3]

ZeroVec == [p |-> <<0, 0, 0>>, n |-> 0, d |-> 1]
NaNVec == [p |-> <<0, 0, 0>>, n |-> 0, d |-> 0]

is_nan(v) == v.d = 0
is_zero(v) == v.d # 0 /\ v.p = <<0, 0, 0>>

\* the vector  sqrt(num/den) * t  for an integer triple t
Scaled(t, num, den) ==
    LET g == Gcd3(t) IN
    IF g = 0 \/ num = 0 THEN ZeroVec
    ELSE LET nn == num * g * g
             k == GCD(nn, den)
         IN [p |-> <<t[1] \div g, t[2] \div g, t[3] \div g>>,
             n |-> nn \div k, d |-> den \div k]

\* vec3(x, y, z) with the components given in tenths
vec3(x, y, z) == Scaled(<<x, y, z>>, 1, 100)

\* InnerSpace::normalize: v / |v|; the zero vector gives 0/0 = NaN
normalize(v) ==
    IF is_nan(v) \/ is_zero(v) THEN NaNVec
    ELSE [p |-> v.p, n |-> 1, d |-> Norm2(v.p)]

CrossT(a, b) == <<a[2] * b[3] - a[3] * b[2],
                  a[3] * b[1] - a[1] * b[3],
                  a[1] * b[2] - a[2] * b[1]>>

\* Vector3::cross of a world axis (integer triple) with v
cross(axis, v) == IF is_nan(v) THEN NaNVec ELSE Scaled(CrossT(axis, v.p), v.n, v.d)

\* vec3(1,0,0).dot(v).abs() > 0.9; a comparison with NaN is false
dot_x_abs_gt_09(v) ==
    /\ ~is_nan(v)
    /\ v.n * v.p[1] * v.p[1] * 100 > 81 * v.d

\* |v| = 1
is_unit(v) == ~is_nan(v) /\ ~is_zero(v) /\ v.n * Norm2(v.p) = v.d

\* u . v = 0 for two vectors with defined components
orthogonal(u, v) ==
    /\ ~is_nan(u) /\ ~is_nan(v)
    /\ u.p[1] * v.p[1] + u.p[2] * v.p[2] + u.p[3] * v.p[3] = 0

compute_up_direction(direction) ==
    IF dot_x_abs_gt_09(direction)
    THEN normalize(cross(<<0, 1, 0>>, direction))
    ELSE normalize(cross(<<1, 0, 0>>, direction))

-----------------------------------------------------------------------------
(* UniformBuffer: an ordered list of field sizes and one slice per field,  *)
(* addressed by index from 0.  A slice is its length and its content; a    *)
(* field never written holds zeros (content <<>>).                         *)

slice(len, value) == [len |-> len, v |-> <<value>>]
zeros(len) == [len |-> len, v |-> <<>>]

UniformBuffer_new(sizes) ==
    [sizes |-> sizes, data |-> [i \in 0..(Len(sizes) - 1) |-> zeros(sizes[i + 1])]]

\* Result<(), Error>: the buffer after the write, or an error
UniformBuffer_update(buffer, index, data) ==
    IF index \in DOMAIN buffer.data /\ buffer.sizes[index + 1] = data.len
    THEN [ok |-> TRUE, buffer |-> [buffer EXCEPT !.data[index] = data]]
    ELSE [ok |-> FALSE, buffer |-> buffer]

UniformBuffer_get(buffer, index) ==
    IF index \in DOMAIN buffer.data
    THEN [ok |-> TRUE, data |-> buffer.data[index]]
    ELSE [ok |-> FALSE, data |-> zeros(0)]

\* the light after a thread panicked inside one of its methods
Panicked == [kind |-> "panicked"]

\* self.light_buffer.update(index, data).unwrap()
update_unwrap(l, index, data) ==
    IF l.kind = "panicked" THEN l
    ELSE LET r == UniformBuffer_update(l.light_buffer, index, data) IN
         IF r.ok THEN [l EXCEPT !.light_buffer = r.buffer] ELSE Panicked

\* self.light_buffer.get(index).unwrap() as the value it holds
get_unwrap(l, index) == UniformBuffer_get(l.light_buffer, index).data.v[1]

-----------------------------------------------------------------------------
(* Camera, Texture2D, RenderTarget and the depth state, as far as the      *)
(* light code uses them.  A camera is the record of what it was built      *)
(* from; its matrices are kept symbolically as functions of that record.   *)

Camera_new_orthographic(position, target, up, width, height, depth) ==
    [projection |-> "orthographic", position |-> position, target |-> target,
     up |-> up, width |-> width, height |-> height, depth |-> depth]

Camera_new_perspective(position, target, up, fovy, aspect, z_near, z_far) ==
    [projection |-> "perspective", position |-> position, target |-> target,
     up |-> up, fovy |-> fovy, aspect |-> aspect, z_near |-> z_near, z_far |-> z_far]

get_view(camera) ==
    [position |-> camera.position, target |-> camera.target, up |-> camera.up]

get_projection(camera) ==
    IF camera.projection = "orthographic"
    THEN [projection |-> "orthographic", width |-> camera.width,
          height |-> camera.height, depth |-> camera.depth]
    ELSE [projection |-> "perspective", fovy |-> camera.fovy, aspect |-> camera.aspect,
          z_near |-> camera.z_near, z_far |-> camera.z_far]

\* shadow_matrix without the remapping to 0..1
shadow_matrix_no_bias(camera) ==
    [bias |-> "none", projection |-> get_projection(camera), view |-> get_view(camera)]

\* bias_matrix * camera.get_projection() * camera.get_view()
shadow_matrix(camera) ==
    [bias |-> "0.5*x+0.5", projection |-> get_projection(camera), view |-> get_view(camera)]

\* a texture name not in use: the graphics context hands out the least free one
free_texture_id(live) == IF live = None \/ unwrap(live).id # 1 THEN 1 ELSE 2

Texture2D_new_as_depth_target(id, width, height) ==
    [id |-> id, width |-> width, height |-> height]

RenderTarget_new == [depth_attachment |-> None, depth |-> "undefined"]

\* the running method: the light, the depth state and the calls made so far
Live(st) == st.light.kind # "panicked"

state_depth_write(st, enable) ==
    IF ~Live(st) THEN st
    ELSE [st EXCEPT !.gl.depth_write = enable,
                    !.events = Append(@, [e |-> "depth_write", arg |-> <<enable>>])]

state_depth_test(st, test) ==
    IF ~Live(st) THEN st
    ELSE [st EXCEPT !.gl.depth_test = test,
                    !.events = Append(@, [e |-> "depth_test", arg |-> <<test>>])]

\* self.shadow_rendertarget.write_to_depth(self.shadow_texture.as_ref().unwrap()).unwrap()
write_to_depth(st) ==
    IF ~Live(st) THEN st
    ELSE IF st.light.shadow_texture = None THEN [st EXCEPT !.light = Panicked]
    ELSE [st EXCEPT !.light.shadow_rendertarget.depth_attachment = st.light.shadow_texture,
                    !.events = Append(@, [e |-> "write_to_depth",
                                          arg |-> <<unwrap(st.light.shadow_texture)>>])]

\* self.shadow_rendertarget.clear_depth(1.0), the depth in tenths
clear_depth(st, depth) ==
    IF ~Live(st) THEN st
    ELSE [st EXCEPT !.light.shadow_rendertarget.depth = "cleared",
                    !.events = Append(@, [e |-> "clear_depth", arg |-> <<depth>>])]

\* render_scene that never calls the callback
render_scene_skipped(st) == st

\* render_scene followed by a second clear of the depth target
render_scene_then_clear(st) ==
    IF ~Live(st) THEN st
    ELSE IF st.light.shadow_camera = None THEN [st EXCEPT !.light = Panicked]
    ELSE [st EXCEPT !.light.shadow_rendertarget.depth = "cleared",
                    !.events = @ \o <<[e |-> "render_scene",
                                       arg |-> <<unwrap(st.light.shadow_camera)>>],
                                      [e |-> "clear_depth", arg |-> <<10>>]>>]

\* render_scene(self.shadow_camera.as_ref().unwrap()): the caller draws the scene depth
render_scene(st) ==
    IF ~Live(st) THEN st
    ELSE IF st.light.shadow_camera = None THEN [st EXCEPT !.light = Panicked]
    ELSE [st EXCEPT !.light.shadow_rendertarget.depth = "rendered",
                    !.events = Append(@, [e |-> "render_scene",
                                          arg |-> <<unwrap(st.light.shadow_camera)>>])]

\* self.shadow_camera = Some(camera)
store_camera(st, camera) ==
    IF ~Live(st) THEN st
    ELSE [st EXCEPT !.light.shadow_camera = Some(camera),
                    !.events = Append(@, [e |-> "camera", arg |-> <<camera>>])]

\* self.light_buffer.update(index, &shadow_matrix(camera).to_slice()).unwrap()
store_matrix(st, index) ==
    IF ~Live(st) THEN st
    ELSE IF st.light.shadow_camera = None THEN [st EXCEPT !.light = Panicked]
    ELSE LET m == shadow_matrix(unwrap(st.light.shadow_camera)) IN
         [st EXCEPT !.light = update_unwrap(@, index, slice(16, m)),
                    !.events = Append(@, [e |-> "matrix", arg |-> <<m>>])]

\* store_texture with width and height exchanged
store_texture_swapped(st, width, height) ==
    IF ~Live(st) THEN st
    ELSE LET t == Texture2D_new_as_depth_target(
                      free_texture_id(st.light.shadow_texture), height, width) IN
         [st EXCEPT !.light.shadow_texture = Some(t),
                    !.events = Append(@, [e |-> "texture", arg |-> <<t>>])]

\* self.shadow_texture = Some(Texture2D::new_as_depth_target(..).unwrap()); the old
\* texture is dropped only after the new one exists
store_texture(st, width, height) ==
    IF ~Live(st) THEN st
    ELSE LET t == Texture2D_new_as_depth_target(
                      free_texture_id(st.light.shadow_texture), width, height) IN
         [st EXCEPT !.light.shadow_texture = Some(t),
                    !.events = Append(@, [e |-> "texture", arg |-> <<t>>])]

-----------------------------------------------------------------------------
(* AmbientLight.                                                           *)

AmbientLight_new(intensity, color) ==
    [kind |-> "Ambient", color |-> color, intensity |-> intensity]

AmbientLight_color(l) == l.color

AmbientLight_set_color(l, color) == [l EXCEPT !.color = color]

AmbientLight_intensity(l) == l.intensity

AmbientLight_set_intensity(l, intensity) == [l EXCEPT !.intensity = intensity]

-----------------------------------------------------------------------------
(* DirectionalLight.                                                       *)

DirectionalLight_set_color(l, color) == update_unwrap(l, 0, slice(3, color))

DirectionalLight_set_intensity(l, intensity) == update_unwrap(l, 1, slice(1, intensity))

\* set_direction that also drops the shadow map of the old direction
DirectionalLight_set_direction_resetting(l, direction) ==
    LET u == update_unwrap(l, 2, slice(3, direction))
    IN IF u.kind = "panicked" THEN u
       ELSE [u EXCEPT !.shadow_camera = None, !.shadow_texture = None]

DirectionalLight_set_direction(l, direction) == update_unwrap(l, 2, slice(3, direction))

DirectionalLight_new(intensity, color, direction) ==
    LET l == [kind |-> "Directional",
              light_buffer |-> UniformBuffer_new(<<3, 1, 3, 1, 16>>),
              shadow_rendertarget |-> RenderTarget_new,
              shadow_texture |-> None,
              shadow_camera |-> None]
    IN DirectionalLight_set_direction(
           DirectionalLight_set_color(
               DirectionalLight_set_intensity(l, intensity), color), direction)

DirectionalLight_direction(l) == get_unwrap(l, 2)

\* clear_shadow_map that forgets the texture
DirectionalLight_clear_camera_only(l) == [l EXCEPT !.shadow_camera = None]

DirectionalLight_clear_shadow_map(l) ==
    [l EXCEPT !.shadow_camera = None, !.shadow_texture = None]

\* target - direction.normalize()*0.5*frustrum_depth, kept as the expression
shadow_position(target, direction, frustrum_depth) ==
    [base |-> target, minus |-> normalize(direction), times_half |-> frustrum_depth]

DirectionalLight_generate_shadow_map(st, target, frustrum_width, frustrum_height, frustrum_depth, texture_width, texture_height) ==
    LET direction == DirectionalLight_direction(st.light)
        up == compute_up_direction(direction)
        s1 == store_camera(st, Camera_new_orthographic(
                  shadow_position(target, direction, frustrum_depth), target, up,
                  frustrum_width, frustrum_height, frustrum_depth))
        s2 == store_matrix(s1, 4)
        s3 == store_texture(s2, texture_width, texture_height)
        s4 == state_depth_write(s3, TRUE)
        s5 == state_depth_test(s4, "LessOrEqual")
        s6 == write_to_depth(s5)
        s7 == clear_depth(s6, 10)
    IN render_scene(s7)

DirectionalLight_shadow_map(l) == l.shadow_texture

DirectionalLight_buffer(l) == l.light_buffer

-----------------------------------------------------------------------------
(* PointLight.                                                             *)

PointLight_set_color(l, color) == update_unwrap(l, 0, slice(3, color))

PointLight_set_intensity(l, intensity) == update_unwrap(l, 1, slice(1, intensity))

PointLight_set_attenuation(l, constant, linear, exponential) ==
    update_unwrap(update_unwrap(update_unwrap(l, 2, slice(1, constant)),
                                3, slice(1, linear)),
                  4, slice(1, exponential))

PointLight_set_position(l, position) == update_unwrap(l, 6, slice(3, position))

PointLight_new(intensity, color, position, constant, linear, exponential) ==
    LET l == [kind |-> "Point",
              light_buffer |-> UniformBuffer_new(<<3, 1, 1, 1, 1, 1, 3, 1>>)]
    IN PointLight_set_attenuation(
           PointLight_set_position(
               PointLight_set_color(
                   PointLight_set_intensity(l, intensity), color), position),
           constant, linear, exponential)

PointLight_buffer(l) == l.light_buffer

-----------------------------------------------------------------------------
(* SpotLight.                                                              *)

\* set_color writing the position field
SpotLight_set_color_at_6(l, color) == update_unwrap(l, 6, slice(3, color))

SpotLight_set_color(l, color) == update_unwrap(l, 0, slice(3, color))

SpotLight_set_intensity(l, intensity) == update_unwrap(l, 1, slice(1, intensity))

SpotLight_set_attenuation(l, constant, linear, exponential) ==
    update_unwrap(update_unwrap(update_unwrap(l, 2, slice(1, constant)),
                                3, slice(1, linear)),
                  4, slice(1, exponential))

SpotLight_set_position(l, position) == update_unwrap(l, 6, slice(3, position))

SpotLight_position(l) == get_unwrap(l, 6)

SpotLight_set_cutoff(l, cutoff) == update_unwrap(l, 7, slice(1, cutoff))

\* set_direction storing the direction as given
SpotLight_set_direction_raw(l, direction) == update_unwrap(l, 8, slice(3, direction))

SpotLight_set_direction(l, direction) == update_unwrap(l, 8, slice(3, normalize(direction)))

SpotLight_direction(l) == get_unwrap(l, 8)

SpotLight_new(intensity, color, position, direction, cutoff, constant, linear, exponential) ==
    LET l == [kind |-> "Spot",
              light_buffer |-> UniformBuffer_new(<<3, 1, 1, 1, 1, 1, 3, 1, 3, 1, 16>>),
              shadow_rendertarget |-> RenderTarget_new,
              shadow_texture |-> None,
              shadow_camera |-> None]
    IN SpotLight_set_attenuation(
           SpotLight_set_position(
               SpotLight_set_direction(
                   SpotLight_set_cutoff(
                       SpotLight_set_color(
                           SpotLight_set_intensity(l, intensity), color), cutoff),
                   direction),
               position),
           constant, linear, exponential)

SpotLight_clear_shadow_map(l) ==
    [l EXCEPT !.shadow_camera = None, !.shadow_texture = None]

\* position + direction, kept as the expression
spot_target(position, direction) == [base |-> position, plus |-> direction]

\* degrees(cutoff)
degrees(x) == [degrees |-> x]

SpotLight_generate_shadow_map(st, frustrum_depth, texture_size) ==
    LET position == SpotLight_position(st.light)
        direction == SpotLight_direction(st.light)
        up == compute_up_direction(direction)
        cutoff == get_unwrap(st.light, 7)
        s1 == store_camera(st, Camera_new_perspective(
                  position, spot_target(position, direction), up,
                  degrees(cutoff), 10, 1, frustrum_depth))
        s2 == store_matrix(s1, 10)
        s3 == store_texture(s2, texture_size, texture_size)
        s4 == state_depth_write(s3, TRUE)
        s5 == state_depth_test(s4, "LessOrEqual")
        s6 == write_to_depth(s5)
        s7 == clear_depth(s6, 10)
    IN render_scene(s7)

SpotLight_shadow_map(l) == l.shadow_texture

SpotLight_buffer(l) == l.light_buffer

-----------------------------------------------------------------------------
(* The values the callers pass.                                            *)

Colors == {vec3(10, 10, 10), vec3(10, 0, 0)}
Intensities == {5, 10}
Directions == {vec3(5, 0, 0), vec3(10, 10, 5)}
Positions == {vec3(0, 0, 0), vec3(0, 20, 0)}
Targets == {vec3(0, 0, 0), vec3(10, 0, 0)}
Cutoffs == {300, 450}
Attenuations == {<<10, 0, 0>>, <<5, 1, 2>>}
FrustumSides == {20}
FrustumDepths == {10, 20}
TextureSizes == 1..MaxTextureSize

-----------------------------------------------------------------------------
(* The lights as a state machine: one light is constructed and then its    *)
(* public methods are called in any order.                                 *)

NoGltf == doc = None /\ loaded = None
NoUp == up_in = None /\ up_out = None
NoWindow == window = None

Fresh(l, args) ==
    /\ light = l
    /\ gl \in [depth_write : BOOLEAN, depth_test : {"None"}]
    /\ op = [name |-> "new", args |-> args]
    /\ events = <<>>
    /\ NoGltf /\ NoUp /\ NoWindow

InitAmbient ==
    \E i \in Intensities, c \in Colors : Fresh(AmbientLight_new(i, c), <<i, c>>)

InitDirectional ==
    \E i \in Intensities, c \in Colors, d \in Directions :
        Fresh(DirectionalLight_new(i, c, d), <<i, c, d>>)

InitPoint ==
    \E i \in Intensities, c \in Colors, p \in Positions, a \in Attenuations :
        Fresh(PointLight_new(i, c, p, a[1], a[2], a[3]), <<i, c, p, a>>)

InitSpot ==
    \E i \in Intensities, c \in Colors, p \in Positions, d \in Directions,
       k \in Cutoffs, a \in Attenuations :
        Fresh(SpotLight_new(i, c, p, d, k, a[1], a[2], a[3]), <<i, c, p, d, k, a>>)

Init == InitAmbient \/ InitDirectional \/ InitPoint \/ InitSpot

\* a method that touches the light only and makes no graphics call
Returns(name, args, l) ==
    /\ light' = l
    /\ op' = [name |-> name, args |-> args]
    /\ events' = <<>>
    /\ UNCHANGED <<gl, doc, loaded, up_in, up_out, window>>

\* a method that ran the steps of st
ReturnsSt(name, args, st) ==
    /\ light' = st.light
    /\ gl' = st.gl
    /\ events' = st.events
    /\ op' = [name |-> name, args |-> args]
    /\ UNCHANGED <<doc, loaded, up_in, up_out, window>>

Call == [light |-> light, gl |-> gl, events |-> <<>>]

Ambient_set_color ==
    /\ light.kind = "Ambient"
    /\ \E c \in Colors : Returns("set_color", <<c>>, AmbientLight_set_color(light, c))

Ambient_set_intensity ==
    /\ light.kind = "Ambient"
    /\ \E i \in Intensities :
          Returns("set_intensity", <<i>>, AmbientLight_set_intensity(light, i))

Directional_set_color ==
    /\ light.kind = "Directional"
    /\ \E c \in Colors : Returns("set_color", <<c>>, DirectionalLight_set_color(light, c))

Directional_set_intensity ==
    /\ light.kind = "Directional"
    /\ \E i \in Intensities :
          Returns("set_intensity", <<i>>, DirectionalLight_set_intensity(light, i))

Directional_set_direction ==
    /\ light.kind = "Directional"
    /\ \E d \in Directions \cup {DirectionalLight_direction(light)} :
          Returns("set_direction", <<d>>, DirectionalLight_set_direction(light, d))

Directional_clear_shadow_map ==
    /\ light.kind = "Directional"
    /\ Returns("clear_shadow_map", <<>>, DirectionalLight_clear_shadow_map(light))

Directional_generate_shadow_map ==
    /\ light.kind = "Directional"
    /\ \E t \in Targets, fw \in FrustumSides, fh \in FrustumSides, fd \in FrustumDepths,
          tw \in TextureSizes, th \in TextureSizes :
          ReturnsSt("generate_shadow_map", <<t, fw, fh, fd, tw, th>>,
                    DirectionalLight_generate_shadow_map(Call, t, fw, fh, fd, tw, th))

Point_set_color ==
    /\ light.kind = "Point"
    /\ \E c \in Colors : Returns("set_color", <<c>>, PointLight_set_color(light, c))

Point_set_intensity ==
    /\ light.kind = "Point"
    /\ \E i \in Intensities :
          Returns("set_intensity", <<i>>, PointLight_set_intensity(light, i))

Point_set_attenuation ==
    /\ light.kind = "Point"
    /\ \E a \in Attenuations :
          Returns("set_attenuation", <<a>>, PointLight_set_attenuation(light, a[1], a[2], a[3]))

Point_set_position ==
    /\ light.kind = "Point"
    /\ \E p \in Positions : Returns("set_position", <<p>>, PointLight_set_position(light, p))

Spot_set_color ==
    /\ light.kind = "Spot"
    /\ \E c \in Colors : Returns("set_color", <<c>>, SpotLight_set_color(light, c))

Spot_set_intensity ==
    /\ light.kind = "Spot"
    /\ \E i \in Intensities :
          Returns("set_intensity", <<i>>, SpotLight_set_intensity(light, i))

Spot_set_attenuation ==
    /\ light.kind = "Spot"
    /\ \E a \in Attenuations :
          Returns("set_attenuation", <<a>>, SpotLight_set_attenuation(light, a[1], a[2], a[3]))

Spot_set_position ==
    /\ light.kind = "Spot"
    /\ \E p \in Positions : Returns("set_position", <<p>>, SpotLight_set_position(light, p))

Spot_set_cutoff ==
    /\ light.kind = "Spot"
    /\ \E k \in Cutoffs : Returns("set_cutoff", <<k>>, SpotLight_set_cutoff(light, k))

Spot_set_direction ==
    /\ light.kind = "Spot"
    /\ \E d \in Directions \cup {SpotLight_direction(light)} :
          Returns("set_direction", <<d>>, SpotLight_set_direction(light, d))

Spot_clear_shadow_map ==
    /\ light.kind = "Spot"
    /\ Returns("clear_shadow_map", <<>>, SpotLight_clear_shadow_map(light))

Spot_generate_shadow_map ==
    /\ light.kind = "Spot"
    /\ \E fd \in FrustumDepths, ts \in TextureSizes :
          ReturnsSt("generate_shadow_map", <<fd, ts>>,
                    SpotLight_generate_shadow_map(Call, fd, ts))

Next ==
    \/ Ambient_set_color
    \/ Ambient_set_intensity
    \/ Directional_set_color
    \/ Directional_set_intensity
    \/ Directional_set_direction
    \/ Directional_clear_shadow_map
    \/ Directional_generate_shadow_map
    \/ Point_set_color
    \/ Point_set_intensity
    \/ Point_set_attenuation
    \/ Point_set_position
    \/ Spot_set_color
    \/ Spot_set_intensity
    \/ Spot_set_attenuation
    \/ Spot_set_position
    \/ Spot_set_cutoff
    \/ Spot_set_direction
    \/ Spot_clear_shadow_map
    \/ Spot_generate_shadow_map

Spec == Init /\ [][Next]_vars

-----------------------------------------------------------------------------
(* compute_up_direction on its own: one call on a chosen direction.        *)

NoLight ==
    /\ light = [kind |-> "none"]
    /\ gl = [depth_write |-> TRUE, depth_test |-> "None"]
    /\ op = [name |-> "none", args |-> <<>>]
    /\ events = <<>>

UpCoords == {-10, -5, 0, 5, 9, 10}

\* directions as a caller gives them, and as SpotLight stores them
UpDirections ==
    LET raw == {vec3(x, y, z) : x \in UpCoords, y \in UpCoords, z \in UpCoords}
    IN raw \cup {normalize(v) : v \in {r \in raw : ~is_zero(r)}}

InitUp ==
    /\ NoLight /\ NoGltf /\ NoWindow
    /\ up_in \in {Some(d) : d \in UpDirections}
    /\ up_out = None

Call_compute_up_direction ==
    /\ is_some(up_in) /\ up_out = None
    /\ up_out' = Some(compute_up_direction(unwrap(up_in)))
    /\ UNCHANGED <<light, gl, op, events, doc, loaded, up_in, window>>

NextUp == Call_compute_up_direction

SpecUp == InitUp /\ [][NextUp]_vars

-----------------------------------------------------------------------------
(* Properties of the lights.                                               *)

HasShadow(l) == l.kind \in {"Directional", "Spot"}
HasBuffer(l) == "light_buffer" \in DOMAIN l

\* the uniform-buffer field that holds the shadow matrix
matrix_field(l) == IF l.kind = "Directional" THEN 4 ELSE 10

matrix_present(l) == l.light_buffer.data[matrix_field(l)].v # <<>>

Returned(name) == op.name = name

render_calls == SelectSeq(events, LAMBDA x : x.e = "render_scene")

\* C1: the shadow state of a directional or spot light is fully present (camera,
\* texture and matrix all set) or fully absent (none of them set).
C1_ShadowAllOrNothing ==
    HasShadow(light) =>
        \/ /\ is_some(light.shadow_camera)
           /\ is_some(light.shadow_texture)
           /\ matrix_present(light)
        \/ /\ light.shadow_camera = None
           /\ light.shadow_texture = None
           /\ ~matrix_present(light)

\* C2: whenever a public operation has returned, shadow_camera is present iff
\* shadow_texture is; clear_shadow_map leaves neither, generate_shadow_map both.
C2_CameraIffTexture ==
    HasShadow(light) =>
        /\ is_some(light.shadow_camera) <=> is_some(light.shadow_texture)
        /\ Returned("clear_shadow_map") =>
               light.shadow_camera = None /\ light.shadow_texture = None
        /\ Returned("generate_shadow_map") =>
               is_some(light.shadow_camera) /\ is_some(light.shadow_texture)

C2_Witness ==
    /\ HasShadow(light)
    /\ Returned("clear_shadow_map")
    /\ matrix_present(light)
    /\ light.shadow_camera = None /\ light.shadow_texture = None

shadow_map(l) == IF l.kind = "Directional" THEN DirectionalLight_shadow_map(l)
                 ELSE SpotLight_shadow_map(l)

\* the resolution asked of the generate_shadow_map call that returned last
requested_size ==
    IF light.kind = "Directional" THEN <<op.args[5], op.args[6]>>
    ELSE <<op.args[2], op.args[2]>>

\* C3: shadow_map() reflects the most recent generate_shadow_map / clear_shadow_map
\* call: None on a fresh light and after clear, after generate a texture of the
\* resolution asked for in that call; no other operation changes it.
C3_ShadowMapReflectsLastCall ==
    [][/\ (HasShadow(light) /\ Returned("new")) => shadow_map(light) = None
       /\ HasShadow(light') =>
            /\ op'.name = "clear_shadow_map" => shadow_map(light') = None
            /\ op'.name = "generate_shadow_map" =>
                  /\ is_some(shadow_map(light'))
                  /\ <<unwrap(shadow_map(light')).width,
                       unwrap(shadow_map(light')).height>> = requested_size'
            /\ op'.name \notin {"clear_shadow_map", "generate_shadow_map"} =>
                  shadow_map(light') = shadow_map(light)]_vars

\* a second shadow map, 2 x 1, replaced an earlier one
C3_Witness ==
    /\ light.kind = "Directional"
    /\ Returned("generate_shadow_map")
    /\ is_some(light.shadow_texture)
    /\ unwrap(light.shadow_texture).id = 2
    /\ unwrap(light.shadow_texture).width = 2
    /\ unwrap(light.shadow_texture).height = 1
    /\ requested_size = <<2, 1>>

\* C4: when generate_shadow_map returns, the matrix in the uniform buffer (field 4
\* directional, field 10 spot) is the bias-remapped projection * view of the stored
\* shadow camera, the stored texture is the depth attachment of the shadow render
\* target, and the callback rendered with that camera.
C4_ConsistentTriple ==
    (HasShadow(light) /\ Returned("generate_shadow_map")) =>
        /\ is_some(light.shadow_camera) /\ is_some(light.shadow_texture)
        /\ LET camera == unwrap(light.shadow_camera)
               field == light.light_buffer.data[IF light.kind = "Directional" THEN 4 ELSE 10]
           IN /\ field.len = 16
              /\ field.v # <<>>
              /\ field.v[1].bias = "0.5*x+0.5"
              /\ field.v[1].projection = get_projection(camera)
              /\ field.v[1].view = get_view(camera)
              /\ light.shadow_rendertarget.depth_attachment = light.shadow_texture
              /\ \A i \in DOMAIN render_calls : render_calls[i].arg = <<camera>>
              /\ render_calls # <<>>

\* a second generate_shadow_map, after the direction changed, on a spot light
C4_Witness ==
    /\ light.kind = "Spot"
    /\ Returned("generate_shadow_map")
    /\ is_some(light.shadow_texture)
    /\ unwrap(light.shadow_texture).id = 2
    /\ light.light_buffer.data[10].v = <<shadow_matrix(unwrap(light.shadow_camera))>>

Setters == {"set_color", "set_intensity", "set_direction", "set_position",
            "set_cutoff", "set_attenuation"}

\* the fields a setter is to write, as <<index, slice>> pairs
written_fields(kind, name, args) ==
    CASE name = "set_color" -> {<<0, slice(3, args[1])>>}
      [] name = "set_intensity" -> {<<1, slice(1, args[1])>>}
      [] name = "set_attenuation" -> {<<2, slice(1, args[1][1])>>,
                                      <<3, slice(1, args[1][2])>>,
                                      <<4, slice(1, args[1][3])>>}
      [] name = "set_position" -> {<<6, slice(3, args[1])>>}
      [] name = "set_cutoff" -> {<<7, slice(1, args[1])>>}
      [] name = "set_direction" /\ kind = "Spot" -> {<<8, slice(3, normalize(args[1]))>>}
      [] name = "set_direction" /\ kind # "Spot" -> {<<2, slice(3, args[1])>>}
      [] OTHER -> {}

\* properties a light struct holds in fields of its own
private_fields(l) ==
    DOMAIN l \cap {"color", "intensity", "direction", "position", "cutoff", "attenuation"}

setter_wrote_buffer ==
    /\ HasBuffer(light)
    /\ private_fields(light) = {}
    /\ \A w \in written_fields(light.kind, op.name, op.args) :
          /\ w[1] \in DOMAIN light.light_buffer.data
          /\ light.light_buffer.data[w[1]] = w[2]

C6_CallbackOncePerGenerate ==
    /\ (HasShadow(light) /\ Returned("generate_shadow_map")) =>
          /\ Len(render_calls) = 1
          /\ events[Len(events)].e = "render_scene"
          /\ render_calls[1].arg = light.shadow_camera
          /\ \E i \in 1..(Len(events) - 1) :
                events[i].e = "camera" /\ events[i].arg = render_calls[1].arg
    /\ ~Returned("generate_shadow_map") => render_calls = <<>>

\* a directional light rendered a shadow map a second time
C6_Witness ==
    /\ light.kind = "Directional"
    /\ Returned("generate_shadow_map")
    /\ Len(render_calls) = 1
    /\ is_some(light.shadow_texture)
    /\ unwrap(light.shadow_texture).id = 2

\* the names of the steps the last method made, in order
step_names == [i \in 1..Len(events) |-> events[i].e]

\* C12: a generate_shadow_map call makes its steps in this order: the shadow camera
\* is stored, the shadow matrix is written to the uniform buffer, the depth texture
\* is allocated, depth write and the LessOrEqual depth test are enabled, the new
\* texture is attached to the render target, the depth is cleared to 1.0, and then
\* render_scene is called; no clear follows render_scene, so the target holds what
\* the callback rendered.
C12_StepsInOrder ==
    (Returned("generate_shadow_map") /\ light.kind \in {"Directional", "Spot"}) =>
        /\ step_names = <<"camera", "matrix", "texture", "depth_write", "depth_test",
                          "write_to_depth", "clear_depth", "render_scene">>
        /\ events[4].arg = <<TRUE>>
        /\ events[5].arg = <<"LessOrEqual">>
        /\ events[6].arg = events[3].arg
        /\ events[7].arg = <<10>>
        /\ \A i, j \in 1..Len(events) :
              (events[i].e = "render_scene" /\ events[j].e = "clear_depth") => j < i
        /\ light.shadow_rendertarget.depth = "rendered"

\* a spot light that already had a shadow map rendered a new one
C12_Witness ==
    /\ light.kind = "Spot"
    /\ Returned("generate_shadow_map")
    /\ Len(events) = 8
    /\ events[7].e = "clear_depth"
    /\ events[8].e = "render_scene"
    /\ unwrap(light.shadow_texture).id = 2
    /\ light.shadow_rendertarget.depth = "rendered"

\* the uniform-buffer fields that belong to a setter
own_fields(kind, name) ==
    CASE name = "set_color" -> {0}
      [] name = "set_intensity" -> {1}
      [] name = "set_direction" -> IF kind = "Directional" THEN {2} ELSE {8}
      [] name = "set_attenuation" -> {2, 3, 4}
      [] name = "set_position" -> {6}
      [] name = "set_cutoff" -> {7}

\* the direction the shadow camera of a directional light was built for
camera_direction(l) == unwrap(l.shadow_camera).position.minus

\* C15: on a directional or spot light a property setter changes nothing but its
\* own uniform-buffer fields: every other field of the buffer, the stored shadow
\* matrix among them, the shadow camera, the shadow texture and the render target
\* are as before the call, so the shadow map of an old direction or position
\* stays as it is until generate_shadow_map or clear_shadow_map.
C15_SetterChangesOwnFieldsOnly ==
    [][(HasShadow(light) /\ op'.name \in Setters) =>
          /\ light'.kind = light.kind
          /\ DOMAIN light'.light_buffer.data = DOMAIN light.light_buffer.data
          /\ \A i \in DOMAIN light.light_buffer.data :
                i \notin own_fields(light.kind, op'.name) =>
                   light'.light_buffer.data[i] = light.light_buffer.data[i]
          /\ matrix_field(light) \notin own_fields(light.kind, op'.name)
          /\ light'.shadow_camera = light.shadow_camera
          /\ light'.shadow_texture = light.shadow_texture
          /\ light'.shadow_rendertarget = light.shadow_rendertarget]_vars

\* a directional light whose direction was set after its shadow map was generated:
\* the camera and the matrix are those of the old direction
C15_Witness ==
    /\ light.kind = "Directional"
    /\ Returned("set_direction")
    /\ is_some(light.shadow_camera)
    /\ is_some(light.shadow_texture)
    /\ camera_direction(light) # normalize(DirectionalLight_direction(light))
    /\ light.light_buffer.data[4] = slice(16, shadow_matrix(unwrap(light.shadow_camera)))

\* directions to set on any light the model reaches
RoundTripDirections ==
    {vec3(-10, 0, 0), vec3(0, 5, 0), vec3(0, 0, -10), vec3(5, 5, 5), vec3(-10, 5, 0),
     vec3(5, -10, -10), vec3(9, 0, 5)}

\* C8: on a spot light, after set_direction(d) with d non-zero, direction() is the unit
\* vector along d, whatever the light went through before, and setting direction()
\* again leaves direction() as it is.
C8_SpotDirectionRoundTrip ==
    light.kind = "Spot" =>
        /\ (Returned("set_direction") /\ ~is_zero(op.args[1]) /\ ~is_nan(op.args[1])) =>
              /\ is_unit(SpotLight_direction(light))
              /\ SpotLight_direction(light).p = op.args[1].p
        /\ \A d \in RoundTripDirections :
              LET after == SpotLight_direction(SpotLight_set_direction(light, d)) IN
              /\ is_unit(after)
              /\ after.p = d.p
              /\ SpotLight_direction(SpotLight_set_direction(
                     SpotLight_set_direction(light, d), after)) = after
        /\ ~is_nan(SpotLight_direction(light)) =>
              SpotLight_direction(SpotLight_set_direction(light, SpotLight_direction(light)))
                  = SpotLight_direction(light)

\* set_direction((1, 1, 0.5)) on a spot light that holds a shadow map
C8_Witness ==
    /\ light.kind = "Spot"
    /\ Returned("set_direction")
    /\ op.args[1] = vec3(10, 10, 5)
    /\ SpotLight_direction(light) = [p |-> <<2, 2, 1>>, n |-> 1, d |-> 9]
    /\ is_some(light.shadow_texture)

-----------------------------------------------------------------------------
(* Properties of compute_up_direction.                                     *)

\* C7: for every direction d with |d| > 0, compute_up_direction(d) is a unit vector
\* orthogonal to d.
C7_UpIsUnitAndOrthogonal ==
    (is_some(up_out) /\ ~is_zero(unwrap(up_in)) /\ ~is_nan(unwrap(up_in))) =>
        /\ is_unit(unwrap(up_out))
        /\ orthogonal(unwrap(up_out), unwrap(up_in))

\* |X . v| and |Y . v| in the common scale of v's components
dot_X_abs(v) == Abs(v.p[1])
dot_Y_abs(v) == Abs(v.p[2])

\* C13: for every non-zero direction d, compute_up_direction(d) is derived from the
\* world axis, X or Y, whose dot product with d has the smaller magnitude: it is
\* normalize(X x d) when |X . d| < |Y . d| and normalize(Y x d) when
\* |Y . d| < |X . d|.
C13_UpFromAxisOfSmallerDot ==
    (is_some(up_out) /\ ~is_zero(unwrap(up_in)) /\ ~is_nan(unwrap(up_in))) =>
        LET direction == unwrap(up_in) IN
        /\ dot_X_abs(direction) < dot_Y_abs(direction) =>
               unwrap(up_out) = normalize(cross(<<1, 0, 0>>, direction))
        /\ dot_Y_abs(direction) < dot_X_abs(direction) =>
               unwrap(up_out) = normalize(cross(<<0, 1, 0>>, direction))

-----------------------------------------------------------------------------
(* glTF extraction (io/gltf.rs).  A document is its nodes and scenes over  *)
(* one library of materials and meshes; indices are from 0 as in glTF.     *)
(* Vertex data is a tag: the claims are about names, materials, textures.  *)

\* format!("index {}", i)
index_name(i) == <<"index 0", "index 1", "index 2", "index 3", "index 4",
                  "index 5", "index 6", "index 7", "index 8", "index 9">>[i + 1]

ImageUri(uri, decodes) ==
    [source |-> "Uri", uri |-> uri, stride |-> None, decodes |-> decodes]
ImageView(stride, decodes) ==
    [source |-> "View", uri |-> "", stride |-> stride, decodes |-> decodes]

GltfMaterial(index, name, base_color_texture, metallic_roughness_texture) ==
    [index |-> Some(index), name |-> name,
     base_color_texture |-> base_color_texture,
     metallic_roughness_texture |-> metallic_roughness_texture,
     metallic_factor |-> index, roughness_factor |-> 10 - index]

\* the material of a primitive that names none
DefaultMaterial ==
    [index |-> None, name |-> None,
     base_color_texture |-> None, metallic_roughness_texture |-> None,
     metallic_factor |-> 10, roughness_factor |-> 10]

\* the materials of the documents: unnamed, named like an unnamed one, two of one
\* name, one whose image file is missing, one with a strided embedded image
MaterialTable ==
    << GltfMaterial(0, None, None, None),
       GltfMaterial(1, Some("index 0"), Some(ImageView(Some(4), TRUE)), None),
       GltfMaterial(2, Some("A"), Some(ImageUri("a.png", TRUE)), None),
       GltfMaterial(3, Some("A"), None, Some(ImageView(None, TRUE))),
       GltfMaterial(4, Some("B"), Some(ImageUri("missing.png", FALSE)), None),
       GltfMaterial(5, Some("C"), Some(ImageView(None, TRUE)),
                    Some(ImageView(Some(4), TRUE))) >>

Primitive(positions, material) == [positions |-> positions, material |-> material]

GltfMesh(index, name, primitives) ==
    [index |-> index, name |-> name, primitives |-> primitives]

MeshTable ==
    << GltfMesh(0, Some("cube"), <<Primitive(Some("p0"), Some(0))>>),
       GltfMesh(1, None, <<Primitive(Some("p1"), Some(1))>>),
       GltfMesh(2, None, <<Primitive(Some("p2"), Some(2)), Primitive(Some("p3"), Some(3))>>),
       GltfMesh(3, None, <<Primitive(Some("p4"), Some(3)), Primitive(Some("p5"), Some(2))>>),
       GltfMesh(4, None, <<Primitive(None, Some(1)), Primitive(Some("p6"), None)>>),
       GltfMesh(5, None, <<Primitive(Some("p7"), Some(4))>>),
       GltfMesh(6, None, <<Primitive(Some("p8"), Some(0)), Primitive(Some("p9"), Some(1)),
                           Primitive(Some("p10"), Some(5))>>) >>

RECURSIVE Sorted(_)
Sorted(S) ==
    IF S = {} THEN <<>>
    ELSE LET m == CHOOSE x \in S : \A y \in S : x <= y IN <<m>> \o Sorted(S \ {m})

\* a document of n nodes: parent[i] = 0 makes node i a root; the first root is the
\* first scene, the other roots are the second scene
Document(n, parent, mesh) ==
    LET roots == Sorted({i \in 1..n : parent[i] = 0}) IN
    [readable |-> TRUE,
     nodes |-> [i \in 1..n |->
                  [mesh |-> mesh[i],
                   children |-> Sorted({j \in 1..n : parent[j] = i})]],
     scenes |-> IF Len(roots) = 1 THEN <<roots>>
                ELSE <<SubSeq(roots, 1, 1), SubSeq(roots, 2, Len(roots))>>]

\* a file that cannot be read or parsed
Unreadable == [readable |-> FALSE, nodes |-> <<>>, scenes |-> <<>>]

\* gltf.materials() and gltf.meshes() of a document
materials_of(d) == IF d.readable THEN MaterialTable ELSE <<>>
meshes_of(d) == IF d.readable THEN MeshTable ELSE <<>>

MeshChoices == {None} \cup {Some(k) : k \in 0..(Len(MeshTable) - 1)}

\* loaded.image(path.join(uri)) / image_from_bytes(&bytes)
decode_image(source) ==
    IF source.decodes THEN [status |-> "Ok", tex |-> Some([pixels_from |-> source])]
    ELSE [status |-> "Err", tex |-> None]

\* parse_texture without the test of the stride
parse_texture_any_stride(info) == decode_image(info)

parse_texture(info) ==
    IF info.source = "Uri" THEN decode_image(info)
    ELSE IF info.stride # None THEN [status |-> "Panic", tex |-> None]
    ELSE decode_image(info)

\* primitive.material()
primitive_material(d, primitive) ==
    IF primitive.material = None THEN DefaultMaterial
    ELSE materials_of(d)[unwrap(primitive.material) + 1]

material_name_of(material) ==
    IF material.name # None THEN unwrap(material.name)
    ELSE IF material.index # None THEN index_name(unwrap(material.index))
    ELSE "default"

\* the scan of cpu_materials finding nothing
already_parsed_never(cpu_materials, material_name) == FALSE

already_parsed(cpu_materials, material_name) ==
    \E i \in DOMAIN cpu_materials : cpu_materials[i].name = material_name

\* an optional texture: None, or the texture parse_texture reads
optional_texture(info) ==
    IF info = None THEN [status |-> "Ok", tex |-> None] ELSE parse_texture(unwrap(info))

CPUMaterial(name, material, color_texture, metallic_roughness_texture) ==
    [name |-> name,
     color_texture |-> color_texture,
     metallic_factor |-> Some(material.metallic_factor),
     roughness_factor |-> Some(material.roughness_factor),
     metallic_roughness_texture |-> metallic_roughness_texture,
     diffuse_intensity |-> Some(10),
     specular_intensity |-> Some(material.metallic_factor),
     specular_power |-> Some(material.roughness_factor)]

CPUMesh(name, positions, material_name) ==
    [name |-> name, positions |-> positions, material_name |-> Some(material_name)]

\* the loop body without the test for position data
parse_primitive_any(d, acc, name, primitive) ==
    IF acc.status # "Ok" THEN acc
    ELSE
      LET material == primitive_material(d, primitive)
          material_name == material_name_of(material)
          parsed == already_parsed(acc.cpu_materials, material_name)
          color == IF parsed THEN [status |-> "Ok", tex |-> None]
                   ELSE optional_texture(material.base_color_texture)
          mr == IF parsed \/ color.status # "Ok" THEN [status |-> "Ok", tex |-> None]
                ELSE optional_texture(material.metallic_roughness_texture)
          positions == IF primitive.positions = None THEN "" ELSE unwrap(primitive.positions)
      IN IF color.status # "Ok" THEN [acc EXCEPT !.status = color.status]
         ELSE IF mr.status # "Ok" THEN [acc EXCEPT !.status = mr.status]
         ELSE [acc EXCEPT
                 !.cpu_materials =
                     IF parsed THEN @
                     ELSE Append(@, CPUMaterial(material_name, material, color.tex, mr.tex)),
                 !.cpu_meshes = Append(@, CPUMesh(name, positions, material_name))]

\* the body of the loop over mesh.primitives()
parse_primitive(d, acc, name, primitive) ==
    IF acc.status # "Ok" \/ primitive.positions = None THEN acc
    ELSE
      LET material == primitive_material(d, primitive)
          material_name == material_name_of(material)
          parsed == already_parsed(acc.cpu_materials, material_name)
          color == IF parsed THEN [status |-> "Ok", tex |-> None]
                   ELSE optional_texture(material.base_color_texture)
          mr == IF parsed \/ color.status # "Ok" THEN [status |-> "Ok", tex |-> None]
                ELSE optional_texture(material.metallic_roughness_texture)
      IN IF color.status # "Ok" THEN [acc EXCEPT !.status = color.status]
         ELSE IF mr.status # "Ok" THEN [acc EXCEPT !.status = mr.status]
         ELSE [acc EXCEPT
                 !.cpu_materials =
                     IF parsed THEN @
                     ELSE Append(@, CPUMaterial(material_name, material, color.tex, mr.tex)),
                 !.cpu_meshes =
                     Append(@, CPUMesh(name, unwrap(primitive.positions), material_name))]

RECURSIVE parse_primitives(_, _, _, _, _)
parse_primitives(d, acc, name, primitives, k) ==
    IF k > Len(primitives) THEN acc
    ELSE parse_primitives(d, parse_primitive(d, acc, name, primitives[k]), name,
                          primitives, k + 1)

mesh_name(mesh) == IF mesh.name # None THEN unwrap(mesh.name) ELSE index_name(mesh.index)

RECURSIVE parse_tree(_, _, _)
RECURSIVE parse_nodes(_, _, _, _)
parse_tree(d, acc, node) ==
    IF acc.status # "Ok" THEN acc
    ELSE
      LET n == d.nodes[node]
          after_mesh ==
              IF n.mesh = None THEN acc
              ELSE LET mesh == meshes_of(d)[unwrap(n.mesh) + 1] IN
                   parse_primitives(d, acc, mesh_name(mesh), mesh.primitives, 1)
      IN parse_nodes(d, after_mesh, n.children, 1)

\* a loop calling parse_tree(..)? on each node of a list
parse_nodes(d, acc, nodes, k) ==
    IF k > Len(nodes) \/ acc.status # "Ok" THEN acc
    ELSE parse_nodes(d, parse_tree(d, acc, nodes[k]), nodes, k + 1)

RECURSIVE parse_scenes(_, _, _)
parse_scenes(d, acc, k) ==
    IF k > Len(d.scenes) \/ acc.status # "Ok" THEN acc
    ELSE parse_scenes(d, parse_nodes(d, acc, d.scenes[k], 1), k + 1)

\* Result<(Vec<CPUMesh>, Vec<CPUMaterial>), IOError>, or a panic
Loaded_gltf(d) ==
    IF ~d.readable THEN [status |-> "Err", meshes |-> <<>>, materials |-> <<>>]
    ELSE LET acc == parse_scenes(d, [status |-> "Ok", cpu_meshes |-> <<>>,
                                     cpu_materials |-> <<>>], 1) IN
         IF acc.status = "Ok"
         THEN [status |-> "Ok", meshes |-> acc.cpu_meshes, materials |-> acc.cpu_materials]
         ELSE [status |-> acc.status, meshes |-> <<>>, materials |-> <<>>]

InitGltf ==
    /\ NoLight /\ NoUp /\ NoWindow
    /\ \/ doc = Some(Unreadable)
       \/ \E n \in 1..MaxNodes :
             \E parent \in [1..n -> 0..(n - 1)], mesh \in [1..n -> MeshChoices] :
                /\ \A i \in 1..n : parent[i] < i
                /\ doc = Some(Document(n, parent, mesh))
    /\ loaded = None

Call_Loaded_gltf ==
    /\ is_some(doc) /\ loaded = None
    /\ loaded' = Some(Loaded_gltf(unwrap(doc)))
    /\ UNCHANGED <<light, gl, op, events, doc, up_in, up_out, window>>

NextGltf == Call_Loaded_gltf

SpecGltf == InitGltf /\ [][NextGltf]_vars

-----------------------------------------------------------------------------
(* Properties of the glTF extraction.                                      *)

RECURSIVE visit_node(_, _)
RECURSIVE visit_list(_, _, _)
\* the primitives with position data below a node, depth first
visit_node(d, node) ==
    LET n == d.nodes[node]
        own == IF n.mesh = None THEN <<>>
               ELSE SelectSeq(meshes_of(d)[unwrap(n.mesh) + 1].primitives,
                              LAMBDA q : q.positions # None)
    IN own \o visit_list(d, n.children, 1)

visit_list(d, nodes, k) ==
    IF k > Len(nodes) THEN <<>>
    ELSE visit_node(d, nodes[k]) \o visit_list(d, nodes, k + 1)

RECURSIVE visit_scenes(_, _)
visit_scenes(d, k) ==
    IF k > Len(d.scenes) THEN <<>>
    ELSE visit_list(d, d.scenes[k], 1) \o visit_scenes(d, k + 1)

\* the primitives with position data of the document in the order of the walk
visited == IF is_some(doc) THEN visit_scenes(unwrap(doc), 1) ELSE <<>>

resolved(k) == primitive_material(unwrap(doc), visited[k])
resolved_name(k) == material_name_of(resolved(k))

\* primitive k is the first of the walk with its material name
first_of_name(k) == \A j \in 1..(k - 1) : resolved_name(j) # resolved_name(k)

result == unwrap(loaded)
gltf_ok == is_some(loaded) /\ result.status = "Ok"

strided_view(source) == source.source = "View" /\ source.stride # None
has_strided_view(material) ==
    \E t \in {material.base_color_texture, material.metallic_roughness_texture} :
        t # None /\ strided_view(unwrap(t))

\* C9: the materials Loaded::gltf returns hold no name twice; a name that several
\* primitives resolve to has exactly one descriptor, the one of the first primitive
\* visited.
C9_OneMaterialPerName ==
    gltf_ok =>
        /\ \A i, j \in DOMAIN result.materials :
              i # j => result.materials[i].name # result.materials[j].name
        /\ \A k \in DOMAIN visited :
              first_of_name(k) =>
                 /\ Cardinality({i \in DOMAIN result.materials :
                                   result.materials[i].name = resolved_name(k)}) = 1
                 /\ \A i \in DOMAIN result.materials :
                       result.materials[i].name = resolved_name(k) =>
                          /\ result.materials[i].metallic_factor
                                = Some(resolved(k).metallic_factor)
                          /\ (result.materials[i].color_texture = None)
                                = (resolved(k).base_color_texture = None)

\* two primitives with different glTF materials of one name, one descriptor returned
C9_Witness ==
    /\ gltf_ok
    /\ \E k, l \in DOMAIN visited :
          /\ k < l
          /\ resolved_name(k) = resolved_name(l)
          /\ resolved(k) # resolved(l)
          /\ first_of_name(k)
          /\ Cardinality({i \in DOMAIN result.materials :
                            result.materials[i].name = resolved_name(k)}) = 1

\* C10: a texture whose image is an embedded buffer view with a stride is never
\* returned: when the walk comes to read one, Loaded::gltf does not return Ok, and no
\* material of an Ok result holds pixels read from such a view.
C10_StridedViewFails ==
    is_some(loaded) =>
        /\ result.status = "Ok" =>
              \A i \in DOMAIN result.materials :
                 \A t \in {result.materials[i].color_texture,
                            result.materials[i].metallic_roughness_texture} :
                    t # None => ~strided_view(unwrap(t).pixels_from)
        /\ (\E k \in DOMAIN visited : first_of_name(k) /\ has_strided_view(resolved(k)))
              => result.status # "Ok"

\* material 1 (strided view) was skipped as a duplicate name; the color texture of
\* material 5 was read, then its strided view made the call panic
C10_Witness ==
    /\ is_some(loaded)
    /\ result.status = "Panic"
    /\ \E k \in DOMAIN visited :
          /\ first_of_name(k)
          /\ resolved(k).index = Some(5)
          /\ \A j \in 1..(k - 1) : first_of_name(j) => ~has_strided_view(resolved(j))

\* the primitives of the document that carry no position data
without_positions ==
    IF is_some(doc)
    THEN {q \in UNION {{m.primitives[i] : i \in DOMAIN m.primitives} :
                         m \in {meshes_of(unwrap(doc))[unwrap(n) + 1] :
                                  n \in {unwrap(doc).nodes[i].mesh :
                                           i \in DOMAIN unwrap(doc).nodes} \ {None}}} :
            q.positions = None}
    ELSE {}

\* C14: when Loaded::gltf returns Ok, every mesh descriptor names a material,
\* Some(n), and the materials hold exactly one descriptor named n; the meshes are
\* those of the primitives with position data, one each in the order of the walk,
\* and every material is the one of such a primitive: a primitive without position
\* data adds no mesh and no material.
C14_MeshesNameTheirMaterial ==
    gltf_ok =>
        /\ \A k \in DOMAIN result.meshes :
              /\ result.meshes[k].material_name # None
              /\ Cardinality({i \in DOMAIN result.materials :
                     Some(result.materials[i].name) = result.meshes[k].material_name}) = 1
        /\ Len(result.meshes) = Len(visited)
        /\ \A k \in DOMAIN visited :
              /\ Some(result.meshes[k].positions) = visited[k].positions
              /\ result.meshes[k].material_name = Some(resolved_name(k))
        /\ \A i \in DOMAIN result.materials :
              \E k \in DOMAIN visited : resolved_name(k) = result.materials[i].name

\* an Ok result for a document with a primitive without position data, whose
\* material is not among the materials, next to a primitive of the default material
C14_Witness ==
    /\ gltf_ok
    /\ \E q \in without_positions :
          \A i \in DOMAIN result.materials :
             result.materials[i].name # material_name_of(primitive_material(unwrap(doc), q))
    /\ \E k \in DOMAIN result.meshes : result.meshes[k].material_name = Some("default")
    /\ Len(result.meshes) >= 2

(***************************************************************************)
(* Window::render_loop (src/window/glutin_window.rs).                      *)
(*                                                                         *)
(* `window` is the state the event-loop closure captures (events,          *)
(* cursor_pos, accumulated_time, count), the part of the windowing system  *)
(* the closure reads or writes (control_flow, inner_size, the pending      *)
(* redraw request), and a log of what one run of the closure did:          *)
(*   last      the platform event the closure handled last,                *)
(*   callback  the frame structs passed to the user callback by that run,  *)
(*   arrived   the window and device events handled since the previous     *)
(*             refresh, each with the cursor position it met.              *)
(* One action is one run of the closure on one platform event.             *)
(***************************************************************************)
MaxArrived == 2

\* The logical size is the physical size divided by the scale factor; the
\* sizes below are multiples of it, so the conversion to u32 is exact.
ScaleFactor == 2

WindowSizes == {<<4, 2>>, <<8, 6>>}
ElapsedTimes == {500, 600}
CursorPositions == {<<1, 1>>, <<3, 2>>}
KeyboardInputs ==
    { [state |-> "Pressed",  virtual_keycode |-> None],
      [state |-> "Pressed",  virtual_keycode |-> Some("VirtualKeyCode::A")],
      [state |-> "Released", virtual_keycode |-> Some("VirtualKeyCode::Escape")] }
MouseScrollDeltas ==
    { [kind |-> "LineDelta",  x |-> 0, y |-> 1],
      [kind |-> "PixelDelta", x |-> 0, y |-> 2] }
MouseInputs ==
    { [state |-> "Pressed",  button |-> "Left"],
      [state |-> "Released", button |-> "Middle"],
      [state |-> "Pressed",  button |-> "Right"],
      [state |-> "Released", button |-> "Other"] }
MouseMotions == {<<1, -1>>}

\* format!("{:?}", keycode): the name of the enum variant.
Debug_VirtualKeyCode(keycode) ==
    CASE keycode = "VirtualKeyCode::A" -> "A"
      [] keycode = "VirtualKeyCode::Escape" -> "Escape"

\* Once control_flow is Exit the event loop keeps it Exit.
set_control_flow(w, control_flow) ==
    IF w.control_flow = "Exit" THEN w ELSE [w EXCEPT !.control_flow = control_flow]

element_state(state) == IF state = "Pressed" THEN "Pressed" ELSE "Released"

\* The closure is entered with one platform event.
enter(w, name) ==
    [set_control_flow(w, "Wait") EXCEPT
        !.last = name,
        !.callback = <<>>,
        !.arrived = IF w.last = "RedrawRequested" THEN <<>> ELSE @]

\* A window or device event is entered.
enter_input(w, name, event) ==
    LET e == enter(w, name)
    IN [e EXCEPT !.arrived = Append(@, [name |-> name, event |-> event, cursor_pos |-> w.cursor_pos])]

Viewport_new_at_origo(width, height) == [x |-> 0, y |-> 0, width |-> width, height |-> height]

to_logical(size) == <<size[1] \div ScaleFactor, size[2] \div ScaleFactor>>

\* The locals of render_loop before event_loop.run.
InitWindow ==
    /\ NoLight /\ NoGltf /\ NoUp
    /\ \E size \in WindowSizes :
         window = [events |-> <<>>, cursor_pos |-> None,
                   accumulated_time |-> 0, count |-> 0,
                   control_flow |-> "Poll", inner_size |-> size,
                   redraw_requested |-> TRUE, running |-> TRUE,
                   last |-> "none", callback |-> <<>>, arrived |-> <<>>]

\* The event loop runs the closure until it is destroyed.
Runs(w) ==
    /\ window.running
    /\ window' = w
    /\ UNCHANGED <<light, gl, op, events, doc, loaded, up_in, up_out>>

\* Window and device events; the model stops accepting them when MaxArrived
\* have arrived since the last refresh.
Accepts ==
    (IF window.last = "RedrawRequested" THEN 0 ELSE Len(window.arrived)) < MaxArrived

LoopDestroyed ==
    /\ window.control_flow = "Exit"
    /\ Runs([enter(window, "LoopDestroyed") EXCEPT !.running = FALSE])

MainEventsCleared ==
    Runs([enter(window, "MainEventsCleared") EXCEPT !.redraw_requested = TRUE])

\* RedrawRequested without events.clear()
RedrawRequested_no_clear ==
    /\ window.redraw_requested
    /\ \E elapsed_time \in ElapsedTimes, swap_ok \in BOOLEAN :
         LET e == enter(window, "RedrawRequested")
             accumulated_time == e.accumulated_time + elapsed_time
             count == e.count + 1
             fps == accumulated_time > 1000
             logical == to_logical(e.inner_size)
             frame_input ==
                 [events |-> e.events,
                  elapsed_time |-> elapsed_time,
                  viewport |-> Viewport_new_at_origo(e.inner_size[1], e.inner_size[2]),
                  window_width |-> logical[1],
                  window_height |-> logical[2]]
         IN Runs([e EXCEPT !.accumulated_time = IF fps THEN 0 ELSE accumulated_time,
                           !.count = IF fps THEN 0 ELSE count,
                           !.callback = Append(@, frame_input),
                           !.redraw_requested = FALSE,
                           !.running = swap_ok])

\* The frame is built from a copy of the pending events, the list is cleared, the
\* callback is called, and swap_buffers().unwrap() ends the program if it fails.
RedrawRequested ==
    /\ window.redraw_requested
    /\ \E elapsed_time \in ElapsedTimes, swap_ok \in BOOLEAN :
         LET e == enter(window, "RedrawRequested")
             accumulated_time == e.accumulated_time + elapsed_time
             count == e.count + 1
             fps == accumulated_time > 1000
             logical == to_logical(e.inner_size)
             frame_input ==
                 [events |-> e.events,
                  elapsed_time |-> elapsed_time,
                  viewport |-> Viewport_new_at_origo(e.inner_size[1], e.inner_size[2]),
                  window_width |-> logical[1],
                  window_height |-> logical[2]]
         IN Runs([e EXCEPT !.accumulated_time = IF fps THEN 0 ELSE accumulated_time,
                           !.count = IF fps THEN 0 ELSE count,
                           !.events = <<>>,
                           !.callback = Append(@, frame_input),
                           !.redraw_requested = FALSE,
                           !.running = swap_ok])

Resized ==
    /\ Accepts
    /\ \E physical_size \in WindowSizes :
         Runs([enter_input(window, "Resized", physical_size) EXCEPT
                  !.inner_size = physical_size])

CloseRequested ==
    /\ Accepts
    /\ Runs(set_control_flow(enter_input(window, "CloseRequested", None), "Exit"))

KeyboardInput ==
    /\ Accepts
    /\ \E input \in KeyboardInputs :
         LET e == enter_input(window, "KeyboardInput", input)
         IN IF input.virtual_keycode # None
            THEN LET keycode == input.virtual_keycode[1]
                     f == IF keycode = "VirtualKeyCode::Escape"
                          THEN set_control_flow(e, "Exit") ELSE e
                     state == element_state(input.state)
                 IN Runs([f EXCEPT !.events =
                             Append(@, [e |-> "Key", state |-> state,
                                        kind |-> Debug_VirtualKeyCode(keycode)])])
            ELSE Runs(e)

MouseWheel ==
    /\ Accepts
    /\ \E delta \in MouseScrollDeltas :
         LET e == enter_input(window, "MouseWheel", delta)
         IN IF e.cursor_pos # None
            THEN LET position == e.cursor_pos[1]
                 IN Runs([e EXCEPT !.events =
                             Append(@, [e |-> "MouseWheel", delta |-> delta.y,
                                        position |-> position])])
            ELSE Runs(e)

MouseInput ==
    /\ Accepts
    /\ \E input \in MouseInputs :
         LET e == enter_input(window, "MouseInput", input)
         IN IF e.cursor_pos # None
            THEN LET position == e.cursor_pos[1]
                     state == element_state(input.state)
                     button == IF input.button \in {"Left", "Middle", "Right"}
                               THEN Some(input.button) ELSE None
                 IN IF button # None
                    THEN Runs([e EXCEPT !.events =
                                 Append(@, [e |-> "MouseClick", state |-> state,
                                            button |-> button[1],
                                            position |-> position])])
                    ELSE Runs(e)
            ELSE Runs(e)

CursorMoved ==
    /\ Accepts
    /\ \E position \in CursorPositions :
         Runs([enter_input(window, "CursorMoved", position) EXCEPT
                  !.cursor_pos = Some(position)])

\* A window event of any other kind.
OtherWindowEvent == Accepts /\ Runs(enter_input(window, "Focused", None))

MouseMotion ==
    /\ Accepts
    /\ \E delta \in MouseMotions :
         LET e == enter_input(window, "MouseMotion", delta)
         IN IF e.cursor_pos # None
            THEN LET position == e.cursor_pos[1]
                 IN Runs([e EXCEPT !.events =
                             Append(@, [e |-> "MouseMotion", delta |-> delta,
                                        position |-> position])])
            ELSE Runs(e)

\* A device event of any other kind.
OtherDeviceEvent == Accepts /\ Runs(enter_input(window, "Added", None))

\* An event of any other kind.
OtherEvent == Runs(enter(window, "NewEvents"))

NextWindow ==
    \/ LoopDestroyed
    \/ MainEventsCleared
    \/ RedrawRequested
    \/ Resized
    \/ CloseRequested
    \/ KeyboardInput
    \/ MouseWheel
    \/ MouseInput
    \/ CursorMoved
    \/ OtherWindowEvent
    \/ MouseMotion
    \/ OtherDeviceEvent
    \/ OtherEvent

SpecWindow == InitWindow /\ [][NextWindow]_vars

(***************************************************************************)
(* Claims about the render loop.                                           *)
(***************************************************************************)

\* What one arrived window or device event is to the user: at most one
\* frame event.
frame_event(a) ==
    CASE a.name = "KeyboardInput" /\ a.event.virtual_keycode = Some("VirtualKeyCode::A") ->
           Some([e |-> "Key", state |-> a.event.state, kind |-> "A"])
      [] a.name = "KeyboardInput" /\ a.event.virtual_keycode = Some("VirtualKeyCode::Escape") ->
           Some([e |-> "Key", state |-> a.event.state, kind |-> "Escape"])
      [] a.name = "MouseWheel" /\ a.cursor_pos # None ->
           Some([e |-> "MouseWheel", delta |-> a.event.y, position |-> a.cursor_pos[1]])
      [] a.name = "MouseInput" /\ a.cursor_pos # None /\ a.event.button # "Other" ->
           Some([e |-> "MouseClick", state |-> a.event.state, button |-> a.event.button, position |-> a.cursor_pos[1]])
      [] a.name = "MouseMotion" /\ a.cursor_pos # None ->
           Some([e |-> "MouseMotion", delta |-> a.event, position |-> a.cursor_pos[1]])
      [] OTHER -> None

RECURSIVE frame_events(_)
frame_events(arrived) ==
    IF arrived = <<>> THEN <<>>
    ELSE frame_event(Head(arrived)) \o frame_events(Tail(arrived))

refreshed == window.last = "RedrawRequested"

\* C11: a display refresh (RedrawRequested) invokes the user callback exactly
\* once, with a frame whose events are the translations of the input events
\* that arrived since the previous refresh, in arrival order, and leaves the
\* pending list empty; no other platform event invokes the callback.
C11_FramePerRefresh ==
    IF refreshed
    THEN /\ Len(window.callback) = 1
         /\ window.callback[1].events = frame_events(window.arrived)
         /\ window.events = <<>>
    ELSE window.callback = <<>>

\* A refresh that delivers a mouse wheel event and a key event, in that
\* order, with the cursor position of an earlier frame's CursorMoved.
C11_Witness ==
    /\ refreshed
    /\ Len(window.callback) = 1
    /\ Len(window.callback[1].events) = 2
    /\ window.callback[1].events[1].e = "MouseWheel"
    /\ window.callback[1].events[2].e = "Key"
    /\ Len(window.arrived) = 2

====
